---------------------------- MODULE Spec2Model ----------------------------
(***************************************************************************)
(* Discrete factor algebra of pgmpy (pgmpy/factors/Factor.py): the Factor  *)
(* class (construction, marginalize, reduce, normalize, identity_factor)   *)
(* and the binary combination _bivar_factor_operation behind               *)
(* factor_product and factor_divide.                                       *)
(*                                                                         *)
(* Conventions of the model                                                *)
(*  - Python lists and numpy arrays are sequences; a Python position p     *)
(*    (0-based) is element p+1 of the sequence (operator At).              *)
(*  - A cell value (numpy double) is a pair <<n, d>>: the exact rational   *)
(*    n/d in lowest terms when d > 0, and NaN when d = 0.  The rounding of *)
(*    doubles is not modelled; the outcome of every division by zero is    *)
(*    (raise, NaN) as numpy produces it under np.seterr(divide='raise').   *)
(*  - The code is written for the numpy of its time: the true division of  *)
(*    two integer element counts is exact and is used as an integer.       *)
(*  - A raised exception is the err field of an outcome record.            *)
(***************************************************************************)
EXTENDS Integers, Sequences, FiniteSets, TLC

(***************************************************************************)
(* Cell values                                                             *)
(***************************************************************************)
Abs(n) == IF n < 0 THEN -n ELSE n

RECURSIVE Gcd(_, _)
Gcd(a, b) == IF b = 0 THEN a ELSE Gcd(b, a % b)

\* the rational n/d (d # 0) in lowest terms with a positive denominator
Rat(n, d) ==
    LET g == Gcd(Abs(n), Abs(d))
        s == IF d < 0 THEN -1 ELSE 1
    IN  <<(s * n) \div g, (s * d) \div g>>

Num(k) == <<k, 1>>
NaN == <<0, 0>>
IsNaN(v) == v[2] = 0
IsZero(v) == v[2] # 0 /\ v[1] = 0

\* double * double
FMul(a, b) == IF IsNaN(a) \/ IsNaN(b) THEN NaN ELSE Rat(a[1] * b[1], a[2] * b[2])

\* double + double
FAdd(a, b) == IF IsNaN(a) \/ IsNaN(b) THEN NaN
              ELSE Rat(a[1] * b[2] + b[1] * a[2], a[2] * b[2])

\* double / double under np.seterr(divide='raise'): a finite non-zero
\* numerator over zero signals 'divide' and raises FloatingPointError; 0/0
\* signals 'invalid', which is left at its default and yields NaN.
FDivRaises(a, b) == IsZero(b) /\ ~IsNaN(a) /\ ~IsZero(a)
FDiv(a, b) == IF IsNaN(a) \/ IsNaN(b) \/ IsZero(b) THEN NaN
              ELSE Rat(a[1] * b[2], a[2] * b[1])

(***************************************************************************)
(* Lists and arrays                                                        *)
(***************************************************************************)
At(s, p) == s[p + 1]

\* list.index(x), for x in the list
RECURSIVE IndexFrom(_, _, _)
IndexFrom(s, x, p) == IF At(s, p) = x THEN p ELSE IndexFrom(s, x, p + 1)
ListIndex(s, x) == IndexFrom(s, x, 0)

Contains(s, x) == \E k \in 1..Len(s) : s[k] = x

\* np.prod
RECURSIVE NpProd(_)
NpProd(s) == IF s = <<>> THEN 1 ELSE Head(s) * NpProd(Tail(s))

\* np.cumprod
NpCumprod(s) == [k \in 1..Len(s) |-> NpProd(SubSeq(s, 1, k))]

\* s[::-1]
Reverse(s) == [k \in 1..Len(s) |-> s[Len(s) + 1 - k]]

\* np.delete(s, p)
NpDelete(s, p) == SubSeq(s, 1, p) \o SubSeq(s, p + 2, Len(s))

\* range(a, b, step) as a list, step > 0
RECURSIVE PyRange(_, _, _)
PyRange(a, b, step) == IF a >= b THEN <<>> ELSE <<a>> \o PyRange(a + step, b, step)

\* np.sum over a list of doubles, accumulated left to right
RECURSIVE NpSum(_)
NpSum(s) == IF s = <<>> THEN Num(0) ELSE FAdd(NpSum(SubSeq(s, 1, Len(s) - 1)), s[Len(s)])

\* the concatenation of a list of lists
RECURSIVE Flatten(_)
Flatten(ss) == IF ss = <<>> THEN <<>> ELSE Head(ss) \o Flatten(Tail(ss))

(***************************************************************************)
(* The Factor object: construction and queries                             *)
(***************************************************************************)
\* what a call yields: the exception it raised ("none" when it returned) and
\* the factor it built or left behind
Outcome(e, f) == [err |-> e, factor |-> f]
Ok(f) == Outcome("none", f)

NoFactor == [variables |-> <<>>, cardinality |-> <<>>, values |-> <<>>]

\* OrderedDict.__setitem__: a new key is appended, a known key keeps its
\* position and takes the new value
DictSet(d, k, v) ==
    IF \E p \in 1..Len(d) : d[p].key = k
    THEN [p \in 1..Len(d) |-> IF d[p].key = k THEN [key |-> k, labels |-> v] ELSE d[p]]
    ELSE Append(d, [key |-> k, labels |-> v])

\* list(d) / d.keys()
Keys(d) == [p \in 1..Len(d) |-> d[p].key]

\* del d[k]
DictDel(d, k) == SelectSeq(d, LAMBDA it : it.key # k)

\* [variable + '_' + str(index) for index in range(card)]
Labels(variable, card) == [i \in 1..card |-> <<variable, i - 1>>]

RECURSIVE ZipDict(_, _, _)
ZipDict(d, variables, cardinality) ==
    IF variables = <<>> THEN d
    ELSE ZipDict(DictSet(d, Head(variables), Labels(Head(variables), Head(cardinality))),
                 Tail(variables), Tail(cardinality))

\* Factor.__init__(variables, cardinality, value)
FactorInit(variables, cardinality, value) ==
    IF Len(variables) # Len(cardinality) THEN Outcome("ValueError", NoFactor)
    ELSE IF Len(value) # NpProd(cardinality) THEN Outcome("SizeError", NoFactor)
    ELSE Ok([variables   |-> ZipDict(<<>>, variables, cardinality),
             cardinality |-> cardinality,
             values      |-> value])

\* Factor.scope()
scope(f) == Keys(f.variables)

\* variable in self.variables
InScope(f, variable) == Contains(scope(f), variable)

\* Factor.get_cardinality(variable), for a variable of the scope
get_cardinality(f, variable) == At(f.cardinality, ListIndex(scope(f), variable))

\* np.ones(n)
NpOnes(n) == [k \in 1..n |-> Num(1)]

\* Factor.identity_factor()
identity_factor(f) == FactorInit(scope(f), f.cardinality, NpOnes(NpProd(f.cardinality)))

(***************************************************************************)
(* Assignment of a flat index                                              *)
(*                                                                         *)
(* The index is an integer, and  ind = ind/card  is the true division of   *)
(* Python 3: after the first round ind is a fraction, ind % card keeps its *)
(* fractional part, and int() drops it at the end.                         *)
(***************************************************************************)
\* ind % card, for a fraction ind and an integer card > 0
FMod(ind, card) == Rat(ind[1] % (card * ind[2]), ind[2])

\* int(x), for a fraction x >= 0
FInt(x) == x[1] \div x[2]

\* a wrong decoding, to tell from the code's: the cardinalities taken in the
\* order of the scope, the first variable resolved first
AssignForward(cardinality, ind) ==
    LET RECURSIVE Go(_, _)
        Go(k, x) == IF k > Len(cardinality) THEN <<>>
                    ELSE <<FInt(FMod(x, cardinality[k]))>> \o
                         Go(k + 1, FDiv(x, Num(cardinality[k])))
    IN  Go(1, Num(ind))

\* for card in self.cardinality[::-1]: assign.insert(0, ind % card); ind = ind/card
\* and then map(int, assign)
Assign(cardinality, ind) ==
    LET RECURSIVE Go(_, _)
        Go(k, x) == IF k = 0 THEN <<>>
                    ELSE Go(k - 1, FDiv(x, Num(cardinality[k]))) \o
                         <<FInt(FMod(x, cardinality[k]))>>
    IN  Go(Len(cardinality), Num(ind))

\* Factor.assignment(index), index a list of integers: the labels of the
\* states of every index, or IndexError
assignment(f, index) ==
    LET max_index == NpProd(f.cardinality) - 1
    IN  IF \E k \in 1..Len(index) : ~(index[k] <= max_index)
        THEN [err |-> "IndexError", assignments |-> <<>>]
        ELSE [err |-> "none",
              assignments |->
                 [k \in 1..Len(index) |->
                    LET values == Assign(f.cardinality, index[k])
                    IN  [j \in 1..Len(f.variables) |->
                           At(f.variables[j].labels, values[j])]]]

(***************************************************************************)
(* Marginalization                                                         *)
(***************************************************************************)
\* np.product(card) / np.concatenate(([1], np.cumprod(card))): entry p is the
\* number of cells spanned by the variables from position p on
cum_cardinality(card) ==
    LET denom == <<1>> \o NpCumprod(card)
    IN  [k \in 1..Len(denom) |-> NpProd(card) \div denom[k]]

\* [j for i in range(0, num_elements, cum[index]) for j in range(i, i + cum[index+1])]
sum_index(card, index) ==
    LET cum == cum_cardinality(card)
        outer == PyRange(0, At(cum, 0), At(cum, index))
    IN  Flatten([k \in 1..Len(outer) |-> PyRange(outer[k], outer[k] + At(cum, index + 1), 1)])

\* a wrong accumulation, to tell from the code's: the block of the first state
\* alone, nothing added to it
MargFirstBlock(values, idx, stride, n) == [k \in 1..Len(idx) |-> At(values, idx[k])]

\* marg_factor after the first n rounds of  marg_factor += values[sum_index + i*stride]
RECURSIVE MargAccumulate(_, _, _, _)
MargAccumulate(values, idx, stride, n) ==
    IF n = 0 THEN [k \in 1..Len(idx) |-> Num(0)]
    ELSE LET acc == MargAccumulate(values, idx, stride, n - 1)
         IN  [k \in 1..Len(idx) |-> FAdd(acc[k], At(values, idx[k] + (n - 1) * stride))]

\* Factor._marginalize_single_variable(variable), for a variable of the scope
marginalize_single_variable(f, variable) ==
    LET index == ListIndex(scope(f), variable)
        cum == cum_cardinality(f.cardinality)
    IN  MargAccumulate(f.values, sum_index(f.cardinality, index),
                       At(cum, index + 1), At(f.cardinality, index))

\* one round of the loop of marginalize
MargStep(f, variable) ==
    LET index == ListIndex(scope(f), variable)
    IN  [variables   |-> DictDel(f.variables, variable),
         cardinality |-> NpDelete(f.cardinality, index),
         values      |-> marginalize_single_variable(f, variable)]

\* the loop of marginalize over the list; a variable that an earlier round
\* removed makes list.index raise ValueError and leaves the factor as it is
RECURSIVE MargLoop(_, _)
MargLoop(f, variables) ==
    IF variables = <<>> THEN Ok(f)
    ELSE IF ~InScope(f, Head(variables)) THEN Outcome("ValueError", f)
    ELSE MargLoop(MargStep(f, Head(variables)), Tail(variables))

\* Factor.marginalize(variables) on the factor it works on (self or the copy)
marginalize(f, variables) ==
    IF \E k \in 1..Len(variables) : ~InScope(f, variables[k])
    THEN Outcome("ScopeError", f)
    ELSE MargLoop(f, variables)

(***************************************************************************)
(* Normalization                                                           *)
(***************************************************************************)
\* Factor.normalize() on the factor it works on: values / np.sum(values)
normalize(f) ==
    LET total == NpSum(f.values)
    IN  IF \E k \in 1..Len(f.values) : FDivRaises(f.values[k], total)
        THEN Outcome("FloatingPointError", f)
        ELSE Ok([f EXCEPT !.values = [k \in 1..Len(f.values) |-> FDiv(f.values[k], total)]])

(***************************************************************************)
(* Reduction                                                               *)
(*                                                                         *)
(* An entry of the list is a string; the model holds it as the list of its *)
(* pieces between underscores, i.e. as value.split('_').                   *)
(***************************************************************************)
\* int(s): the strings the model feeds to it and the integers they denote
PyIntTable == [t \in {"0", "1", "2", "3", "-1"} |->
                 CASE t = "0" -> 0 [] t = "1" -> 1 [] t = "2" -> 2
                   [] t = "3" -> 3 [] t = "-1" -> -1]
IsPyInt(t) == t \in DOMAIN PyIntTable
PyInt(t) == PyIntTable[t]

\* a wrong selection, to tell from the code's: the block of state 0 whatever
\* the offset
TakeFirstBlock(values, idx, offset) == [k \in 1..Len(idx) |-> At(values, idx[k])]

\* values[np.array(index_arr) + offset]: a negative position counts from the
\* end, a position outside the buffer raises IndexError
TakeRaises(values, idx, offset) ==
    \E k \in 1..Len(idx) : idx[k] + offset >= Len(values) \/ idx[k] + offset < -Len(values)
Take(values, idx, offset) ==
    [k \in 1..Len(idx) |->
        LET p == idx[k] + offset
        IN  At(values, IF p < 0 THEN p + Len(values) ELSE p)]

\* one round of the loop of reduce
ReduceStep(f, value) ==
    IF Len(value) < 2 THEN Outcome("TypeError", f)
    ELSE IF Len(value) # 2 THEN Outcome("ValueError", f)
    ELSE LET var == value[1]
             value_index == value[2]
         IN  IF ~InScope(f, var) THEN Outcome("ScopeError", f)
             ELSE IF ~IsPyInt(value_index) THEN Outcome("ValueError", f)
             ELSE LET index == ListIndex(scope(f), var)
                      cum == cum_cardinality(f.cardinality)
                      index_arr == sum_index(f.cardinality, index)
                      offset == PyInt(value_index) * At(cum, index + 1)
                  IN  IF ~(PyInt(value_index) < At(f.cardinality, index))
                      THEN Outcome("SizeError", f)
                      ELSE IF TakeRaises(f.values, index_arr, offset)
                      THEN Outcome("IndexError", f)
                      ELSE Ok([variables   |-> DictDel(f.variables, var),
                               cardinality |-> NpDelete(f.cardinality, index),
                               values      |-> Take(f.values, index_arr, offset)])

\* Factor.reduce(values) on the factor it works on (self or the copy): the
\* loop stops at the first entry that raises
RECURSIVE reduce(_, _)
reduce(f, values) ==
    IF values = <<>> THEN Ok(f)
    ELSE LET r == ReduceStep(f, Head(values))
         IN  IF r.err # "none" THEN r ELSE reduce(r.factor, Tail(values))

(***************************************************************************)
(* Binary combination                                                      *)
(***************************************************************************)
\* wrong strides, to tell from the code's: the first variable fastest
FirstFastestStrides(card) == NpDelete(<<1>> \o NpCumprod(card), Len(card))

\* np.delete(np.concatenate(([1], np.cumprod(card[::-1])))[::-1], 0): the
\* stride of every position of a scope
cumprod_strides(card) == NpDelete(Reverse(<<1>> \o NpCumprod(Reverse(card))), 0)

\* itertools.product(*[range(card) for card in cardinality]): the list of
\* index tuples, built pool by pool as  [x + [y] for x in result for y in pool]
RECURSIVE IterProduct(_)
IterProduct(cardinality) ==
    IF cardinality = <<>> THEN << <<>> >>
    ELSE LET result == IterProduct(SubSeq(cardinality, 1, Len(cardinality) - 1))
             pool == PyRange(0, cardinality[Len(cardinality)], 1)
         IN  Flatten([x \in 1..Len(result) |->
                        [y \in 1..Len(pool) |-> Append(result[x], pool[y])]])

\* np.sum(index[indexes] * cumprod)
RECURSIVE DotFrom(_, _, _, _)
DotFrom(index, indexes, cumprod, k) ==
    IF k > Len(indexes) THEN 0
    ELSE At(index, indexes[k]) * cumprod[k] + DotFrom(index, indexes, cumprod, k + 1)
FlatPos(index, indexes, cumprod) == DotFrom(index, indexes, cumprod, 1)

\* wrong positions, to tell from the code's: those of phi2's own scope
PositionInPhi2(variables, phi2_vars) == [k \in 1..Len(phi2_vars) |-> k - 1]

\* phi2_indexes: the position in the union scope of every variable of phi2
position_in_union(variables, phi2_vars) ==
    [k \in 1..Len(phi2_vars) |-> ListIndex(variables, phi2_vars[k])]

\* a wrong outer product, to tell from the code's: phi2's cells slowest
OuterValuesPhi2Slowest(values1, values2) ==
    Flatten([j \in 1..Len(values2) |->
               [i \in 1..Len(values1) |-> FMul(values1[i], values2[j])]])

\* for value in phi1.values: values = np.concatenate((values, value*phi2.values))
outer_values(values1, values2) ==
    Flatten([i \in 1..Len(values1) |->
               [j \in 1..Len(values2) |-> FMul(values1[i], values2[j])]])

\* the cell appended for one index tuple
CombineCell(a, b, operation) ==
    IF operation = "M" THEN FMul(a, b)
    ELSE IF FDivRaises(a, b) THEN Num(0)   \* except FloatingPointError
    ELSE FDiv(a, b)

\* _bivar_factor_operation(phi1, phi2, operation), operation "M" or "D"
bivar_factor_operation(phi1, phi2, operation) ==
    LET phi1_vars == scope(phi1)
        phi2_vars == scope(phi2)
        common_var_list == SelectSeq(phi1_vars, LAMBDA var : Contains(phi2_vars, var))
        extra == SelectSeq(phi2_vars, LAMBDA var : ~Contains(common_var_list, var))
    IN  IF common_var_list # <<>>
        THEN LET variables == phi1_vars \o extra
                 cardinality == phi1.cardinality \o
                                [k \in 1..Len(extra) |-> get_cardinality(phi2, extra[k])]
                 phi1_indexes == [k \in 1..Len(phi1_vars) |-> k - 1]
                 phi2_indexes == position_in_union(variables, phi2_vars)
                 phi1_cumprod == cumprod_strides(phi1.cardinality)
                 phi2_cumprod == cumprod_strides(phi2.cardinality)
                 cells == IterProduct(cardinality)
                 pos1(k) == FlatPos(cells[k], phi1_indexes, phi1_cumprod)
                 pos2(k) == FlatPos(cells[k], phi2_indexes, phi2_cumprod)
             IN  IF \E k \in 1..Len(cells) : pos1(k) >= Len(phi1.values)
                                          \/ pos2(k) >= Len(phi2.values)
                 THEN Outcome("IndexError", NoFactor)
                 ELSE FactorInit(variables, cardinality,
                        [k \in 1..Len(cells) |->
                           CombineCell(At(phi1.values, pos1(k)), At(phi2.values, pos2(k)),
                                       operation)])
        ELSE IF operation = "D" THEN Outcome("ValueError", NoFactor)
        ELSE FactorInit(phi1_vars \o phi2_vars, phi1.cardinality \o phi2.cardinality,
                        outer_values(phi1.values, phi2.values))

\* factor_product(*args), for one argument or more: functools.reduce folds
\* from the left and hands back a single argument as it is
RECURSIVE FoldProduct(_, _)
FoldProduct(acc, rest) ==
    IF rest = <<>> THEN Ok(acc)
    ELSE LET r == bivar_factor_operation(acc, Head(rest), "M")
         IN  IF r.err # "none" THEN r ELSE FoldProduct(r.factor, Tail(rest))
factor_product(args) == FoldProduct(Head(args), Tail(args))

\* a wrong division, to tell from the code's: factors with no common variable
\* are combined like any others
FactorDivideAnyScopes(phi1, phi2) ==
    IF \E k \in 1..Len(scope(phi1)) : Contains(scope(phi2), scope(phi1)[k])
    THEN bivar_factor_operation(phi1, phi2, "D")
    ELSE bivar_factor_operation(phi1, phi2, "M")

\* factor_divide(phi1, phi2)
factor_divide(phi1, phi2) == bivar_factor_operation(phi1, phi2, "D")

(***************************************************************************)
(* Inputs                                                                  *)
(*                                                                         *)
(* The variables and cardinalities are those of the running example of the *)
(* docstrings, Factor(['x1', 'x2', 'x3'], [2, 3, 2], range(12)).  A        *)
(* variable has the same cardinality in every factor that holds it.        *)
(***************************************************************************)
Vars == {"x1", "x2", "x3"}
VarCard == [v \in Vars |-> IF v = "x2" THEN 3 ELSE 2]

\* largest offset of a ramp buffer
MaxOff == 1

\* largest offset of a ramp buffer among the three factors of a fold
MaxFoldOff == 0

\* every ordering of every set of variables, the empty scope included
RECURSIVE Orderings(_)
Orderings(S) ==
    IF S = {} THEN {<<>>}
    ELSE UNION {{<<v>> \o t : t \in Orderings(S \ {v})} : v \in S}
Scopes == UNION {Orderings(S) : S \in SUBSET Vars}

CardsOf(variables) == [k \in 1..Len(variables) |-> VarCard[variables[k]]]

\* value buffers of n cells: the ramps off, off+1, ... (range(n) and
\* [x+1 for x in range(n)] of the docstrings) and the buffers that are zero
\* except for a 2 in one cell
Ramp(n, off) == [k \in 1..n |-> Num(off + k - 1)]
Spike(n, j) == [k \in 1..n |-> IF k = j THEN Num(2) ELSE Num(0)]
Buffers(n) == {Ramp(n, off) : off \in 0..MaxOff} \cup {Spike(n, j) : j \in 1..n}

\* the factors Factor(variables, cardinality, value) accepts over these
FactorsOver(variables) ==
    {FactorInit(variables, CardsOf(variables), value).factor :
        value \in Buffers(NpProd(CardsOf(variables)))}
Seeds == UNION {FactorsOver(variables) : variables \in Scopes}

\* the factors of the docstring of divide
DocPhi1 == FactorInit(<<"x1", "x2", "x3">>, <<2, 3, 2>>, Ramp(12, 0)).factor
DocPhi2 == FactorInit(<<"x3", "x1">>, <<2, 2>>, Ramp(4, 1)).factor

(***************************************************************************)
(* State                                                                   *)
(*                                                                         *)
(* The calls under study one at a time:                                    *)
(*   pc    what the program does next                                      *)
(*   phis  the factors handed to the call                                  *)
(*   arg   its list argument (variables of marginalize, entries of reduce) *)
(*   res   the outcomes of the calls made so far                           *)
(* The Factor objects a program holds:                                     *)
(*   objs  every Factor instance, by identity: the addresses of its        *)
(*         variables dictionary, cardinality array and values array        *)
(*         (address 0: no such instance)                                   *)
(*   mem   the contents of the addresses                                   *)
(*   call  the last call: its number, what was called on what, and what it *)
(*         returned (an instance, 0 for None) or raised                    *)
(***************************************************************************)
VARIABLES pc, phis, arg, res, objs, mem, call

alg == <<pc, phis, arg, res>>
heap == <<objs, mem, call>>
vars == <<pc, phis, arg, res, objs, mem, call>>

\* how many Factor instances the program holds at most
MaxObjs == 3

\* how many calls the program makes at most
MaxCalls == 3

ObjIds == 1..MaxObjs
\* three addresses an instance, and two for the arrays a call rebinds
Addrs == 1..(3 * MaxObjs + 2)

NoObj == [variables |-> 0, cardinality |-> 0, values |-> 0]
Held(os) == {o \in ObjIds : os[o] # NoObj}

\* the factor an instance holds
View(os, m, o) == [variables   |-> m[os[o].variables],
                   cardinality |-> m[os[o].cardinality],
                   values      |-> m[os[o].values]]
Views(os, m) == [o \in ObjIds |-> IF os[o] = NoObj THEN NoFactor ELSE View(os, m, o)]

NoCall == [n |-> 0, op |-> "none", self |-> 0, others |-> <<>>, list |-> <<>>, inplace |-> FALSE,
           ret |-> 0, err |-> "none"]

HeapIdle ==
    /\ objs = [o \in ObjIds |-> NoObj]
    /\ mem = [a \in Addrs |-> <<>>]
    /\ call = NoCall

AlgIdle ==
    /\ pc = "idle"
    /\ phis = <<>>
    /\ arg = <<>>
    /\ res = <<>>

Start(stage, factors, list) ==
    /\ pc = stage
    /\ phis = factors
    /\ arg = list
    /\ res = <<>>
    /\ HeapIdle

\* phis[1].product(phis[2])
CallProduct ==
    /\ pc = "product"
    /\ res' = Append(res, factor_product(phis))
    /\ pc' = "done"
    /\ UNCHANGED <<phis, arg, heap>>

InitProduct == \E a \in Seeds, b \in Seeds : Start("product", <<a, b>>, <<>>)
SpecProduct == InitProduct /\ [][CallProduct]_vars

(***************************************************************************)
(* What a factor denotes: its value at a joint assignment                  *)
(***************************************************************************)
\* the assignments of states to a set of variables
Assignments(S) == {a \in [S -> 0..2] : \A v \in S : a[v] < VarCard[v]}

Range(s) == {s[k] : k \in 1..Len(s)}

\* the flat position of an assignment: the digits of the factor's own
\* variables, first variable most significant
RECURSIVE FlatIndex(_, _, _)
FlatIndex(f, a, k) ==
    IF k = 0 THEN 0
    ELSE FlatIndex(f, a, k - 1) * f.cardinality[k] + a[scope(f)[k]]
ValueAt(f, a) == At(f.values, FlatIndex(f, a, Len(f.cardinality)))

\* len(scope) == len(cardinality), len(values) == product(cardinality), no
\* variable twice
WellFormed(f) ==
    /\ Len(scope(f)) = Len(f.cardinality)
    /\ Len(f.values) = NpProd(f.cardinality)
    /\ \A i, j \in 1..Len(scope(f)) : scope(f)[i] = scope(f)[j] => i = j

\* C1: product(A, B) is over A's scope followed by the variables of B that
\* A lacks, in B's order, with their cardinalities, and its cell at every
\* joint assignment is A's value times B's value at that assignment, whether
\* or not A and B share a variable.
C1_ProductPerCell ==
    pc = "done" /\ Len(phis) = 2 /\ arg = <<>> /\ Len(res) = 1 =>
        LET A == phis[1]
            B == phis[2]
            r == res[1]
            union == scope(A) \o SelectSeq(scope(B), LAMBDA v : ~Contains(scope(A), v))
        IN  /\ r.err = "none"
            /\ scope(r.factor) = union
            /\ r.factor.cardinality = CardsOf(union)
            /\ WellFormed(r.factor)
            /\ \A a \in Assignments(Range(union)) :
                   ValueAt(r.factor, a) = FMul(ValueAt(A, a), ValueAt(B, a))

C1_Witness ==
    /\ pc = "done" /\ Len(phis) = 2 /\ arg = <<>> /\ Len(res) = 1
    /\ res[1].err = "none"
    /\ scope(phis[1]) = <<"x1", "x2">>
    /\ scope(phis[2]) = <<"x3", "x2">>
    /\ \E k \in 1..12 : ~IsZero(res[1].factor.values[k])

(***************************************************************************)
(* Division                                                                *)
(***************************************************************************)
\* phis[1].divide(phis[2])
CallDivide ==
    /\ pc = "divide"
    /\ res' = Append(res, factor_divide(phis[1], phis[2]))
    /\ pc' = "done"
    /\ UNCHANGED <<phis, arg, heap>>

InitDivide == \E a \in Seeds, b \in Seeds : Start("divide", <<a, b>>, <<>>)
SpecDivide == InitDivide /\ [][CallDivide]_vars

Overlap(A, B) == \E v \in Range(scope(A)) : v \in Range(scope(B))

\* C2: divide(A, B) with overlapping scopes does not fail; a cell whose
\* denominator in B is zero is exactly 0 whatever the numerator, zero
\* included, and every other cell is the quotient of the aligned values.
C2_ZeroDenominatorIsZero ==
    pc = "done" /\ Len(phis) = 2 /\ Len(res) = 1 /\ Overlap(phis[1], phis[2]) =>
        LET A == phis[1]
            B == phis[2]
            r == res[1]
        IN  /\ r.err = "none"
            /\ \A a \in Assignments(Range(scope(r.factor))) :
                   ValueAt(r.factor, a) =
                       IF IsZero(ValueAt(B, a)) THEN Num(0)
                       ELSE FDiv(ValueAt(A, a), ValueAt(B, a))

FromRatios(s) == [k \in 1..Len(s) |-> Rat(s[k][1], s[k][2])]

\* the result of the docstring of divide
DocQuotient ==
    FromRatios(<< <<0, 1>>, <<1, 2>>, <<2, 3>>, <<3, 4>>, <<4, 1>>, <<5, 2>>,
                  <<2, 1>>, <<7, 4>>, <<8, 1>>, <<9, 2>>, <<10, 3>>, <<11, 4>> >>)

\* what the aligned division gives
AlignedQuotient ==
    FromRatios(<< <<0, 1>>, <<1, 3>>, <<2, 1>>, <<1, 1>>, <<4, 1>>, <<5, 3>>,
                  <<3, 1>>, <<7, 4>>, <<4, 1>>, <<9, 4>>, <<5, 1>>, <<11, 4>> >>)

ScenarioA == pc = "done" /\ phis = <<DocPhi1, DocPhi2>> /\ Len(res) = 1

CallProductFirst ==
    /\ pc = "product_first"
    /\ res' = Append(res, factor_product(phis))
    /\ pc' = "divide_back"
    /\ UNCHANGED <<phis, arg, heap>>

\* (the product).divide(phis[2])
CallDivideBack ==
    /\ pc = "divide_back"
    /\ res[1].err = "none"
    /\ res' = Append(res, factor_divide(res[1].factor, phis[2]))
    /\ pc' = "done"
    /\ UNCHANGED <<phis, arg, heap>>

InitMulDiv == \E a \in Seeds, b \in Seeds : Start("product_first", <<a, b>>, <<>>)
SpecMulDiv == InitMulDiv /\ [][CallProductFirst \/ CallDivideBack]_vars

\* C9: for f1 and f2 with overlapping scopes, (f1.product(f2)).divide(f2) is
\* f1's value at every joint cell where f2's value is not zero and 0 at every
\* joint cell where f2's value is zero.
C9_ProductThenDivide ==
    pc = "done" /\ Len(phis) = 2 /\ Len(res) = 2 /\ Overlap(phis[1], phis[2]) =>
        LET f1 == phis[1]
            f2 == phis[2]
            q == res[2]
        IN  /\ q.err = "none"
            /\ \A a \in Assignments(Range(scope(q.factor))) :
                   ValueAt(q.factor, a) =
                       IF IsZero(ValueAt(f2, a)) THEN Num(0) ELSE ValueAt(f1, a)

(***************************************************************************)
(* Marginalization and reduction of one factor                             *)
(***************************************************************************)
\* phis[1].marginalize(arg) on a copy
CallMarginalize ==
    /\ pc = "marginalize"
    /\ res' = Append(res, marginalize(phis[1], arg))
    /\ pc' = "done"
    /\ UNCHANGED <<phis, arg, heap>>

\* the lists of distinct variables of a scope
DistinctLists(variables) == UNION {Orderings(S) : S \in SUBSET Range(variables)}

InitMarginalize ==
    \E f \in Seeds : \E list \in DistinctLists(scope(f)) : Start("marginalize", <<f>>, list)
SpecMarginalize == InitMarginalize /\ [][CallMarginalize]_vars

\* the assignment that extends r by e
Extend(r, e) == [v \in DOMAIN r \cup DOMAIN e |-> IF v \in DOMAIN e THEN e[v] ELSE r[v]]

RECURSIVE SumOver(_, _)
SumOver(fn, S) ==
    IF S = {} THEN Num(0)
    ELSE LET x == CHOOSE x \in S : TRUE
         IN  FAdd(fn[x], SumOver(fn, S \ {x}))

\* the scope and cardinalities left when the variables of a set are removed
Remaining(f, gone) == SelectSeq(scope(f), LAMBDA v : v \notin gone)

\* C4: marginalize over a list of distinct variables of the scope removes
\* exactly those variables, the others keep their order and cardinalities,
\* and every remaining cell is the sum of the original values over all the
\* states of the removed variables; range(12) over (x1,x2,x3) marginalized
\* over ['x1','x3'] is [14, 22, 30] over (x2).
C4_MarginalizeSums ==
    pc = "done" /\ Len(phis) = 1 /\ Len(res) = 1 /\ (arg = <<>> \/ arg[1] \in Vars) =>
        LET f == phis[1]
            r == res[1]
            gone == Range(arg)
            left == Remaining(f, gone)
        IN  /\ r.err = "none"
            /\ scope(r.factor) = left
            /\ r.factor.cardinality = CardsOf(left)
            /\ WellFormed(r.factor)
            /\ \A a \in Assignments(Range(left)) :
                   ValueAt(r.factor, a) =
                       SumOver([e \in Assignments(gone) |-> ValueAt(f, Extend(a, e))],
                               Assignments(gone))
            /\ (f = DocPhi1 /\ arg = <<"x1", "x3">> =>
                   /\ scope(r.factor) = <<"x2">>
                   /\ r.factor.values = <<Num(14), Num(22), Num(30)>>)

C4_Witness ==
    /\ pc = "done" /\ phis = <<DocPhi1>> /\ arg = <<"x2">> /\ Len(res) = 1
    /\ res[1].err = "none"
    /\ scope(res[1].factor) = <<"x1", "x3">>

\* str(index)
PyStr(i) == CHOOSE t \in DOMAIN PyIntTable : PyIntTable[t] = i

\* phis[1].reduce(arg) on a copy
CallReduce ==
    /\ pc = "reduce"
    /\ res' = Append(res, reduce(phis[1], arg))
    /\ pc' = "done"
    /\ UNCHANGED <<phis, arg, heap>>

\* the lists of entries 'variable_state' over distinct variables of a scope,
\* every state within the cardinality of its variable
ValidEntries(variables) ==
    {[k \in 1..Len(list) |-> <<list[k], PyStr(a[list[k]])>>] :
        list \in DistinctLists(variables), a \in Assignments(Range(variables))}

InitReduce ==
    \E f \in Seeds : \E list \in ValidEntries(scope(f)) : Start("reduce", <<f>>, list)
SpecReduce == InitReduce /\ [][CallReduce]_vars

\* the assignment a list of valid entries fixes
Fixed(entries) ==
    [v \in {entries[k][1] : k \in 1..Len(entries)} |->
        PyInt((CHOOSE e \in Range(entries) : e[1] = v)[2])]

\* C5: reduce over a list of valid entries removes exactly the named
\* variables and every remaining cell is the original value at the joint
\* assignment that extends it with the fixed states; range(12) over
\* (x1,x2,x3) reduced by ['x1_0','x2_0'] is [0, 1] over (x3).
C5_ReduceSelects ==
    pc = "done" /\ Len(phis) = 1 /\ Len(res) = 1 /\ (arg = <<>> \/ arg[1] \notin Vars) =>
        LET f == phis[1]
            r == res[1]
            fixed == Fixed(arg)
            left == Remaining(f, DOMAIN fixed)
        IN  /\ r.err = "none"
            /\ scope(r.factor) = left
            /\ r.factor.cardinality = CardsOf(left)
            /\ WellFormed(r.factor)
            /\ \A a \in Assignments(Range(left)) :
                   ValueAt(r.factor, a) = ValueAt(f, Extend(a, fixed))
            /\ (f = DocPhi1 /\ arg = << <<"x1", "0">>, <<"x2", "0">> >> =>
                   /\ scope(r.factor) = <<"x3">>
                   /\ r.factor.values = <<Num(0), Num(1)>>)

C5_Witness ==
    /\ pc = "done" /\ phis = <<DocPhi1>> /\ arg = << <<"x2", "2">> >> /\ Len(res) = 1
    /\ res[1].err = "none"
    /\ scope(res[1].factor) = <<"x1", "x3">>

(***************************************************************************)
(* Products of three factors                                               *)
(***************************************************************************)
\* factor_product(phis[1], phis[2], phis[3])
CallFoldLeft ==
    /\ pc = "fold_left"
    /\ res' = Append(res, factor_product(phis))
    /\ pc' = "group_right"
    /\ UNCHANGED <<phis, arg, heap>>

\* phis[1].product(phis[2].product(phis[3]))
CallGroupRight ==
    /\ pc = "group_right"
    /\ LET inner == factor_product(<<phis[2], phis[3]>>)
       IN  res' = Append(res, IF inner.err # "none" THEN inner
                              ELSE factor_product(<<phis[1], inner.factor>>))
    /\ pc' = "done"
    /\ UNCHANGED <<phis, arg, heap>>

RampSeeds ==
    UNION {{FactorInit(variables, CardsOf(variables),
                       Ramp(NpProd(CardsOf(variables)), off)).factor : off \in 0..MaxFoldOff} :
              variables \in Scopes}

InitAssoc == \E a \in RampSeeds, b \in RampSeeds, c \in RampSeeds :
                 Start("fold_left", <<a, b, c>>, <<>>)
SpecAssoc == InitAssoc /\ [][CallFoldLeft \/ CallGroupRight]_vars

\* C10: the left fold (f1*f2)*f3 of factor_product and the grouping
\* f1*(f2*f3) are over the same set of variables with the same
\* cardinalities and have the same value at every joint assignment.
C10_Associative ==
    pc = "done" /\ Len(phis) = 3 /\ Len(res) = 2 =>
        LET l == res[1]
            r == res[2]
        IN  /\ l.err = "none" /\ r.err = "none"
            /\ Range(scope(l.factor)) = Range(scope(r.factor))
            /\ \A v \in Range(scope(l.factor)) :
                   get_cardinality(l.factor, v) = get_cardinality(r.factor, v)
            /\ \A a \in Assignments(Range(scope(l.factor))) :
                   ValueAt(l.factor, a) = ValueAt(r.factor, a)

C10_Witness ==
    /\ pc = "done" /\ Len(phis) = 3 /\ Len(res) = 2
    /\ scope(phis[1]) = <<"x1">>
    /\ scope(phis[2]) = <<"x2", "x3">>
    /\ scope(phis[3]) = <<"x3", "x1">>
    /\ res[1].err = "none" /\ res[2].err = "none"
    /\ \E k \in 1..12 : ~IsZero(res[1].factor.values[k])

(***************************************************************************)
(* Reduction by entries that are not valid                                 *)
(***************************************************************************)
\* entries as value.split('_') gives them: 'x1' (no separator), 'x1_0_1' (two
\* separators), 'x1_a' (no integer), 'x9_0' (no such variable), 'x1_2' and
\* 'x1_3' (beyond the cardinality), 'x1_-1' (negative), and the valid 'x1_0',
\* 'x1_1'; the same over x3
AnyEntries ==
    UNION {{<<v>>, <<v, "0", "1">>, <<v, "a">>, <<v, "2">>, <<v, "3">>, <<v, "-1">>,
            <<v, "0">>, <<v, "1">>} : v \in {"x1", "x3"}}
    \cup {<<"x9", "0">>}
AnyLists == {<<e>> : e \in AnyEntries} \cup {<<e, d>> : e \in AnyEntries, d \in AnyEntries}

InitReduceAny == \E f \in RampSeeds : \E list \in AnyLists : Start("reduce", <<f>>, list)
SpecReduceAny == InitReduceAny /\ [][CallReduce]_vars

\* what is wrong with an entry, given the variables still in scope
Defects(entry, variables) ==
    LET parsed == Len(entry) = 2 /\ IsPyInt(entry[2])
    IN  (IF parsed THEN {} ELSE {"malformed"})
        \cup (IF Len(entry) >= 2 /\ ~Contains(variables, entry[1]) THEN {"unknown"} ELSE {})
        \cup (IF parsed /\ Contains(variables, entry[1])
                        /\ PyInt(entry[2]) \notin 0..(VarCard[entry[1]] - 1)
              THEN {"range"} ELSE {})

\* the errors of the code that stand for a kind of the specification
KindOf(defect) ==
    CASE defect = "malformed" -> {"TypeError", "ValueError"}
      [] defect = "unknown"   -> {"ScopeError"}
      [] defect = "range"     -> {"SizeError"}

\* the variables in scope when entry k is met: those of the earlier entries
\* are gone
ScopeAt(f, entries, k) ==
    SelectSeq(scope(f), LAMBDA v : \A j \in 1..(k - 1) : entries[j][1] # v)

\* C13: reduce fails on the first entry that is not valid, with the error of
\* (one of) its defects: malformed token, variable not in scope, state not in
\* 0..cardinality-1 (negative included); no such entry selects a block.
C13_InvalidEntriesRejected ==
    pc = "done" /\ Len(phis) = 1 /\ Len(res) = 1 /\ arg # <<>> =>
        LET f == phis[1]
            bad == {k \in 1..Len(arg) : Defects(arg[k], ScopeAt(f, arg, k)) # {}}
        IN  IF bad = {} THEN res[1].err = "none"
            ELSE LET k == CHOOSE i \in bad : \A j \in bad : i <= j
                 IN  res[1].err \in UNION {KindOf(d) : d \in Defects(arg[k], ScopeAt(f, arg, k))}

(***************************************************************************)
(* Assignment of flat indexes                                              *)
(***************************************************************************)
\* phis[1].assignment(arg)
CallAssignment ==
    /\ pc = "assignment"
    /\ res' = Append(res, assignment(phis[1], arg))
    /\ pc' = "done"
    /\ UNCHANGED <<phis, arg, heap>>

\* the index lists: one index from -1 to one past the last cell, or cell 0
\* and another index
IndexLists(f) ==
    LET I == -1..NpProd(f.cardinality)
    IN  {<<i>> : i \in I} \cup {<<0, i>> : i \in I}

InitAssignment == \E f \in Seeds : \E index \in IndexLists(f) : Start("assignment", <<f>>, index)
SpecAssignment == InitAssignment /\ [][CallAssignment]_vars

\* the state a label names, and the flat index of a list of labels of f under
\* the strides that _bivar_factor_operation takes for f's cardinalities
StateOf(label) == label[2]
Encode(f, labels) ==
    FlatPos([j \in 1..Len(labels) |-> StateOf(labels[j])],
            [j \in 1..Len(labels) |-> j - 1], cumprod_strides(f.cardinality))

\* C11: for every factor and every flat index i from 0 to the product of the
\* cardinalities minus 1, assignment(i) succeeds and names one state of every
\* variable of the scope, in scope order and within its cardinality, and
\* encoding these states with the strides of binary combination (last
\* variable fastest) gives i again.
C11_AssignmentRoundTrip ==
    pc = "done" /\ Len(phis) = 1 /\ Len(res) = 1
    /\ (\A k \in 1..Len(arg) : 0 <= arg[k] /\ arg[k] < NpProd(phis[1].cardinality)) =>
        LET f == phis[1]
            r == res[1]
        IN  /\ r.err = "none"
            /\ Len(r.assignments) = Len(arg)
            /\ \A k \in 1..Len(arg) :
                   LET labels == r.assignments[k]
                   IN  /\ Len(labels) = Len(scope(f))
                       /\ \A j \in 1..Len(labels) :
                              /\ labels[j][1] = scope(f)[j]
                              /\ StateOf(labels[j]) \in 0..(f.cardinality[j] - 1)
                       /\ Encode(f, labels) = arg[k]
                       /\ At(f.values, Encode(f, labels)) = At(f.values, arg[k])

C11_Witness ==
    /\ pc = "done" /\ Len(phis) = 1 /\ Len(res) = 1
    /\ scope(phis[1]) = <<"x1", "x2", "x3">>
    /\ arg = <<0, 7>>
    /\ res[1].err = "none"
    /\ res[1].assignments[2] = << <<"x1", 1>>, <<"x2", 0>>, <<"x3", 1>> >>

(***************************************************************************)
(* Factor instances: allocation and in-place update                        *)
(***************************************************************************)
Min(S) == CHOOSE x \in S : \A y \in S : x <= y

RECURSIVE Smallest(_, _)
Smallest(S, k) == IF k = 0 THEN <<>> ELSE <<Min(S)>> \o Smallest(S \ {Min(S)}, k - 1)

\* the addresses some instance refers to
Refs(os) == (UNION {{os[o].variables, os[o].cardinality, os[o].values} : o \in ObjIds}) \ {0}

\* k addresses no instance refers to
FreshAddrs(os, k) == Smallest(Addrs \ Refs(os), k)

\* the next instance
FreeObj(os) == Min(ObjIds \ Held(os))
Full(os) == Held(os) = ObjIds

\* what no instance refers to is reclaimed
Collect(os, m) == [a \in Addrs |-> IF a \in Refs(os) THEN m[a] ELSE <<>>]

\* Factor.__init__ on a new instance: an OrderedDict and two arrays of its own
\* (np.array copies what it is given)
NewInstance(os, m, id, f) ==
    LET a == FreshAddrs(os, 3)
    IN  [objs |-> [os EXCEPT ![id] = [variables |-> a[1], cardinality |-> a[2], values |-> a[3]]],
         mem  |-> [m EXCEPT ![a[1]] = f.variables, ![a[2]] = f.cardinality, ![a[3]] = f.values]]

\* the receiver after an in-place call left it as f: the dictionary is
\* changed where it is (del), the arrays named in rebound are new arrays bound
\* to the attribute (factor.values = ..., factor.cardinality = ...)
UpdateInstance(os, m, o, f, rebound) ==
    LET a == FreshAddrs(os, 2)
        card == IF "cardinality" \in rebound THEN a[1] ELSE os[o].cardinality
        vals == IF "values" \in rebound THEN a[2] ELSE os[o].values
        os2 == [os EXCEPT ![o] = [variables |-> os[o].variables, cardinality |-> card,
                                  values |-> vals]]
        m2 == [m EXCEPT ![os[o].variables] = f.variables, ![card] = f.cardinality,
                        ![vals] = f.values]
    IN  [objs |-> os2, mem |-> Collect(os2, m2)]

Same(os, m) == [objs |-> os, mem |-> m]

\* the record of a call
Called(name, o, more, list, mode, returned, raised) ==
    [n |-> call.n + 1, op |-> name, self |-> o, others |-> more, list |-> list, inplace |-> mode,
     ret |-> returned, err |-> raised]

\* a wrong copy mode, to tell from the code's: the call works on the receiver
\* in either mode, and copy mode returns the receiver
AxisCallOnSelf(name, o, list, inplace, r, made, rebound) ==
    LET after == IF made THEN UpdateInstance(objs, mem, o, r.factor, rebound)
                 ELSE Same(objs, mem)
    IN  /\ objs' = after.objs
        /\ mem' = after.mem
        /\ call' = Called(name, o, <<>>, list, inplace,
                          IF made /\ ~inplace /\ r.err = "none" THEN o ELSE 0, r.err)
        /\ UNCHANGED alg

\* the heap and the call record after marginalize, reduce or normalize on
\* instance o: r is the outcome of the loop on the factor the call works on
\* (self, or the copy Factor(self.scope(), self.cardinality, self.values)), made
\* says whether the call got as far as choosing that factor, rebound names the
\* arrays the call bound anew
AxisCall(name, o, list, inplace, r, made, rebound) ==
    LET after == IF ~made THEN Same(objs, mem)
                 ELSE IF inplace THEN UpdateInstance(objs, mem, o, r.factor, rebound)
                 ELSE IF r.err = "none" THEN NewInstance(objs, mem, FreeObj(objs), r.factor)
                 ELSE Same(objs, mem)
        returned == IF made /\ ~inplace /\ r.err = "none" THEN FreeObj(objs) ELSE 0
    IN  /\ objs' = after.objs
        /\ mem' = after.mem
        /\ call' = Called(name, o, <<>>, list, inplace, returned, r.err)
        /\ UNCHANGED alg

\* the copy of copy mode
CopyOf(f) == FactorInit(scope(f), f.cardinality, f.values).factor

\* the program makes MaxCalls calls at most, and calls methods on the factors
\* that satisfy the data model
Usable(o) == call.n < MaxCalls /\ o \in Held(objs) /\ WellFormed(View(objs, mem, o))

\* the largest numerator or denominator among the cells of a factor the
\* program hands to product or divide
MaxCell == 10
Small(f) == \A k \in 1..Len(f.values) : Abs(f.values[k][1]) <= MaxCell /\ f.values[k][2] <= MaxCell
Operand(o) == Usable(o) /\ Small(View(objs, mem, o))

\* o.marginalize(list, inplace)
Marginalize(o, list, inplace) ==
    /\ Usable(o)
    /\ inplace \/ ~Full(objs)
    /\ LET self == View(objs, mem, o)
           checked == \A k \in 1..Len(list) : InScope(self, list[k])
           r == IF ~checked THEN marginalize(self, list)
                ELSE marginalize(IF inplace THEN self ELSE CopyOf(self), list)
       IN  AxisCall("marginalize", o, list, inplace, r, checked,
                    IF r.factor.cardinality # self.cardinality
                    THEN {"cardinality", "values"} ELSE {})

\* o.reduce(list, inplace)
Reduce(o, list, inplace) ==
    /\ Usable(o)
    /\ inplace \/ ~Full(objs)
    /\ LET self == View(objs, mem, o)
           r == reduce(IF inplace THEN self ELSE CopyOf(self), list)
       IN  AxisCall("reduce", o, list, inplace, r, TRUE,
                    IF r.factor.cardinality # self.cardinality
                    THEN {"cardinality", "values"} ELSE {})

\* o.normalize(inplace)
Normalize(o, inplace) ==
    /\ Usable(o)
    /\ inplace \/ ~Full(objs)
    /\ LET self == View(objs, mem, o)
           r == normalize(IF inplace THEN self ELSE CopyOf(self))
       IN  AxisCall("normalize", o, <<>>, inplace, r, TRUE,
                    IF r.err = "none" THEN {"values"} ELSE {})

\* the heap and the call record after a call that builds its result with
\* Factor(...): r is the outcome of that construction
BuildCall(name, o, more, r) ==
    LET after == IF r.err = "none" THEN NewInstance(objs, mem, FreeObj(objs), r.factor)
                 ELSE Same(objs, mem)
    IN  /\ objs' = after.objs
        /\ mem' = after.mem
        /\ call' = Called(name, o, more, <<>>, FALSE,
                          IF r.err = "none" THEN FreeObj(objs) ELSE 0, r.err)
        /\ UNCHANGED alg

\* o.product(*more) = factor_product(o, *more): with no other factor
\* functools.reduce returns its only argument
Product(o, more) ==
    /\ Operand(o)
    /\ \A k \in 1..Len(more) : Operand(more[k])
    /\ IF more = <<>>
       THEN /\ call' = Called("product", o, more, <<>>, FALSE, o, "none")
            /\ UNCHANGED <<objs, mem, alg>>
       ELSE /\ ~Full(objs)
            /\ BuildCall("product", o, more,
                         factor_product(<<View(objs, mem, o)>> \o
                                        [k \in 1..Len(more) |-> View(objs, mem, more[k])]))

\* o.divide(g) = factor_divide(o, g)
Divide(o, g) ==
    /\ Operand(o) /\ Operand(g)
    /\ ~Full(objs)
    /\ BuildCall("divide", o, <<g>>, factor_divide(View(objs, mem, o), View(objs, mem, g)))

\* o.identity_factor()
IdentityFactor(o) ==
    /\ Usable(o)
    /\ ~Full(objs)
    /\ BuildCall("identity_factor", o, <<>>, identity_factor(View(objs, mem, o)))

\* Factor(variables, cardinality, value); the program builds its factors
\* before it calls their methods
Construct(variables, cardinality, value) ==
    /\ call.n < MaxCalls
    /\ ~Full(objs)
    /\ call.op \in {"none", "Factor"}
    /\ LET r == FactorInit(variables, cardinality, value)
           after == IF r.err = "none" THEN NewInstance(objs, mem, FreeObj(objs), r.factor)
                    ELSE Same(objs, mem)
       IN  /\ objs' = after.objs
           /\ mem' = after.mem
           /\ call' = Called("Factor", 0, <<>>, variables, FALSE,
                             IF r.err = "none" THEN FreeObj(objs) ELSE 0, r.err)
           /\ UNCHANGED alg

(***************************************************************************)
(* A program that builds factors and calls their methods                   *)
(***************************************************************************)
\* what the program hands to Factor(...): lists of one or two variable names
\* (a name may come twice), the cardinality lists of such lists, ramps
HeapVars == {"x1", "x3"}
CtorVariables == {<<v>> : v \in HeapVars} \cup {<<v, w>> : v \in HeapVars, w \in HeapVars}
CtorCardinalities == {CardsOf(variables) : variables \in CtorVariables}
CtorValues == {Ramp(NpProd(c), 1) : c \in CtorCardinalities}

\* what it hands to marginalize
MargLists == {<<>>} \cup {<<v>> : v \in HeapVars} \cup {<<"x1", w>> : w \in HeapVars}

\* what it hands to reduce: no entry, one entry or two
Entries == {<<"x1", "0">>, <<"x3", "1">>, <<"x1", "2">>}
ReduceLists == {<<>>} \cup {<<e>> : e \in Entries} \cup {<<e, d>> : e \in Entries, d \in Entries}

\* the other factors it hands to product
ProductArgs == {<<>>} \cup {<<g>> : g \in ObjIds} \cup {<<g, g>> : g \in ObjIds}

Init == AlgIdle /\ HeapIdle

Next ==
    \/ \E variables \in CtorVariables, cardinality \in CtorCardinalities, value \in CtorValues :
           Construct(variables, cardinality, value)
    \/ \E o \in ObjIds, list \in MargLists, inplace \in BOOLEAN : Marginalize(o, list, inplace)
    \/ \E o \in ObjIds, list \in ReduceLists, inplace \in BOOLEAN : Reduce(o, list, inplace)
    \/ \E o \in ObjIds, inplace \in BOOLEAN : Normalize(o, inplace)
    \/ \E o \in ObjIds, more \in ProductArgs : Product(o, more)
    \/ \E o \in ObjIds, g \in ObjIds : Divide(o, g)
    \/ \E o \in ObjIds : IdentityFactor(o)

Spec == Init /\ [][Next]_vars

(***************************************************************************)
(* Properties of the instances                                             *)
(***************************************************************************)
\* C6: every Factor that construction accepts, and every Factor that calls
\* of marginalize, reduce, normalize, product, divide and identity_factor
\* lead to, has as many cardinalities as variables, as many values as the
\* product of its cardinalities, and no variable twice in its scope.
C6_DataModelInvariant ==
    \A o \in Held(objs) : WellFormed(View(objs, mem, o))

\* g is f summed over the variables of the set gone
IsMarginalOf(g, f, gone) ==
    LET left == Remaining(f, gone)
    IN  /\ scope(g) = left
        /\ g.cardinality = CardsOf(left)
        /\ WellFormed(g)
        /\ \A a \in Assignments(Range(left)) :
               ValueAt(g, a) = SumOver([e \in Assignments(gone) |-> ValueAt(f, Extend(a, e))],
                                       Assignments(gone))

\* g is f with the variables of the assignment fixed held at their states
IsReductionOf(g, f, fixed) ==
    LET left == Remaining(f, DOMAIN fixed)
    IN  /\ scope(g) = left
        /\ g.cardinality = CardsOf(left)
        /\ WellFormed(g)
        /\ \A a \in Assignments(Range(left)) : ValueAt(g, a) = ValueAt(f, Extend(a, fixed))

\* g is f with every value divided by the sum of the values
IsNormalizedOf(g, f) ==
    /\ scope(g) = scope(f)
    /\ g.cardinality = f.cardinality
    /\ Len(g.values) = Len(f.values)
    /\ \A k \in 1..Len(f.values) : g.values[k] = FDiv(f.values[k], NpSum(f.values))

\* g is what the call c makes of f
IsResultOf(g, f, c) ==
    CASE c.op = "marginalize" -> IsMarginalOf(g, f, Range(c.list))
      [] c.op = "reduce"      -> IsReductionOf(g, f, Fixed(c.list))
      [] c.op = "normalize"   -> IsNormalizedOf(g, f)

C8_CombinationAllocates ==
    call.op \in {"product", "divide"} /\ call.err = "none" =>
        /\ call.ret \in Held(objs)
        /\ \A o \in {call.self} \cup Range(call.others) :
               /\ call.ret # o
               /\ {objs[o].variables, objs[o].cardinality, objs[o].values} \cap
                  {objs[call.ret].variables, objs[call.ret].cardinality,
                   objs[call.ret].values} = {}

\* C14: divide on factors that share no variable (a factor whose scope is
\* empty shares none) raises ValueError, the error of an undefined
\* operation, returns no Factor and leaves every instance as it was; on
\* factors that share a variable it does not raise that error.
C14_DisjointDivideUndefined ==
    [][call'.n # call.n /\ call'.op = "divide" =>
          LET c == call'
              A == View(objs, mem, c.self)
              B == View(objs, mem, c.others[1])
          IN  IF Range(scope(A)) \cap Range(scope(B)) = {}
              THEN /\ c.err = "ValueError"
                   /\ c.ret = 0
                   /\ objs' = objs
                   /\ mem' = mem
              ELSE c.err # "ValueError"]_vars

C14_Witness ==
    /\ call.op = "divide" /\ call.err = "ValueError" /\ call.ret = 0
    /\ scope(View(objs, mem, call.self)) = <<>>
    /\ scope(View(objs, mem, call.others[1])) = <<"x3">>

\* C15: marginalize or reduce in place that raises leaves the scope, the
\* cardinalities and the values of the receiver as they were before the
\* call, wherever in the list the offending entry stands.
C15_FailedInPlaceUnchanged ==
    [][call'.n # call.n /\ call'.op \in {"marginalize", "reduce"} /\ call'.inplace
        /\ call'.err # "none" =>
          View(objs', mem', call'.self) = View(objs, mem, call'.self)]_vars

(***************************************************************************)
(* Normalization of factors whose values sum to zero                       *)
(***************************************************************************)
\* value buffers of n cells, n >= 2: all zero, 1 and -1 cancelling out (the
\* other cells zero), and the ramp 1, 2, ...
Zeros(n) == [k \in 1..n |-> Num(0)]
Cancelling(n) == [k \in 1..n |-> IF k = 1 THEN Num(1) ELSE IF k = 2 THEN Num(-1) ELSE Num(0)]
NormValues == UNION {{Zeros(NpProd(c)), Cancelling(NpProd(c)), Ramp(NpProd(c), 1)} :
                        c \in CtorCardinalities}

\* a program that builds such factors and normalizes them
NextNormalize ==
    \/ \E variables \in CtorVariables, cardinality \in CtorCardinalities, value \in NormValues :
           Construct(variables, cardinality, value)
    \/ \E o \in ObjIds, inplace \in BOOLEAN : Normalize(o, inplace)

SpecNormalize == Init /\ [][NextNormalize]_vars

ZeroSum(f) == IsZero(NpSum(f.values))

\* C12: normalize on a factor whose values sum to zero raises nothing, in
\* copy mode and in place, whether all cells are zero or non-zero cells
\* cancel out, and every cell of the result is non-finite.
C12_ZeroSumNeverFails ==
    [][call'.n # call.n /\ call'.op = "normalize" /\ ZeroSum(View(objs, mem, call'.self)) =>
          LET c == call'
              result == View(objs', mem', IF c.inplace THEN c.self ELSE c.ret)
          IN  /\ c.err = "none"
              /\ \A k \in 1..Len(result.values) : IsNaN(result.values[k])]_vars

=============================================================================
